---- MODULE Spec2Model ----
\* A model of src/main5.py: the batch runner that synthesizes a corpus with
\* the TTS executable, transcribes the audio with the ASR executable and
\* reports a light word error rate.
\*
\* Strings are sequences of one-character strings, so that splitting,
\* trimming and prefix tests are computed as the code computes them.
EXTENDS Integers, Sequences, FiniteSets, TLC

\* ---------------------------------------------------------------- bounds

\* Largest corpus (number of utterances) a run is given.
MaxTexts == 2
\* Largest number of lines of a process output handed to the parser.
MaxLines == 5
\* Largest number of lines of a manifest handed to the transcription phase.
MaxManifestLines == 3

\* ------------------------------------------------------- string helpers

\* Characters str.strip() removes (those of the model's alphabet).
IsSpace(c) == c \in {" ", "\t"}

RECURSIVE LStrip(_)
LStrip(s) == IF s # <<>> /\ IsSpace(Head(s)) THEN LStrip(Tail(s)) ELSE s

RECURSIVE RStrip(_)
RStrip(s) ==
    IF s # <<>> /\ IsSpace(s[Len(s)]) THEN RStrip(SubSeq(s, 1, Len(s) - 1)) ELSE s

\* str.strip()
Strip(s) == RStrip(LStrip(s))

\* str.startswith(p)
StartsWith(s, p) == Len(s) >= Len(p) /\ SubSeq(s, 1, Len(p)) = p

\* The position of the first occurrence of character c in s, 0 when absent.
RECURSIVE FindChar(_, _, _)
FindChar(s, c, k) ==
    IF k > Len(s) THEN 0 ELSE IF s[k] = c THEN k ELSE FindChar(s, c, k + 1)

\* s.split(c), for a single separator character c: always at least one piece.
RECURSIVE SplitOn(_, _)
SplitOn(s, c) ==
    LET k == FindChar(s, c, 1)
    IN  IF k = 0 THEN <<s>>
        ELSE <<SubSeq(s, 1, k - 1)>> \o SplitOn(SubSeq(s, k + 1, Len(s)), c)

\* sep.join(parts)
RECURSIVE Join(_, _)
Join(parts, sep) ==
    IF parts = <<>> THEN <<>>
    ELSE IF Len(parts) = 1 THEN parts[1]
    ELSE parts[1] \o sep \o Join(Tail(parts), sep)

\* Faulty variant of Min2: the larger of the two.
Max2(a, b) == IF a >= b THEN a ELSE b

Min2(a, b) == IF a <= b THEN a ELSE b

\* ------------------------------------------------------------ literals

\* "Batch transcription failed:"
Sentinel ==
    <<"B","a","t","c","h"," ","t","r","a","n","s","c","r","i","p","t","i","o","n",
      " ","f","a","i","l","e","d",":">>

\* "Final transcription:"
Marker ==
    <<"F","i","n","a","l"," ","t","r","a","n","s","c","r","i","p","t","i","o","n",":">>

\* ------------------------------------------- extract_final_transcription

\* Faulty variant of HasSentinelLine: the lines are tested untrimmed.
HasSentinelLineNoStrip(lines) ==
    \E k \in 1..Len(lines) : StartsWith(lines[k], Sentinel)

\* The first loop: some line, trimmed, starts with the failure sentinel.
HasSentinelLine(lines) ==
    \E k \in 1..Len(lines) : StartsWith(Strip(lines[k]), Sentinel)

\* The index of the first line whose trimmed content starts with the marker,
\* 0 when there is none (the second loop's outer iteration, which breaks at
\* the first marker).
RECURSIVE FirstMarker(_, _)
FirstMarker(lines, k) ==
    IF k > Len(lines) THEN 0
    ELSE IF StartsWith(Strip(lines[k]), Marker) THEN k
    ELSE FirstMarker(lines, k + 1)

\* Faulty variant of IsSeparator: a rule of five characters counts too.
IsSeparatorFrom5(s) ==
    /\ {s[k] : k \in 1..Len(s)} \subseteq {"=", "-"}
    /\ Len(s) >= 5

\* set(s) <= {"=", "-"} and len(s) > 5
IsSeparator(s) ==
    /\ {s[k] : k \in 1..Len(s)} \subseteq {"=", "-"}
    /\ Len(s) > 5

\* Faulty variant of ScanAfter: the line is returned as it is, not trimmed.
RECURSIVE ScanAfterRaw(_, _)
ScanAfterRaw(lines, j) ==
    IF j > Len(lines) THEN <<>>
    ELSE LET s == Strip(lines[j])
         IN  IF s = <<>> THEN ScanAfterRaw(lines, j + 1)
             ELSE IF IsSeparator(s) THEN <<>>
             ELSE lines[j]

\* The inner loop from line j on: blank lines are skipped, a separator stops
\* the scan with nothing (<<>>), any other line is returned trimmed.
RECURSIVE ScanAfter(_, _)
ScanAfter(lines, j) ==
    IF j > Len(lines) THEN <<>>
    ELSE LET s == Strip(lines[j])
         IN  IF s = <<>> THEN ScanAfter(lines, j + 1)
             ELSE IF IsSeparator(s) THEN <<>>
             ELSE s

\* Faulty variant of LastNonBlank: the last line is taken, blank or not.
LastLine(lines, k) ==
    IF k = 0 THEN <<>> ELSE Strip(lines[k])

\* The fallback loop: the last non-blank line, trimmed; "" when there is none.
RECURSIVE LastNonBlank(_, _)
LastNonBlank(lines, k) ==
    IF k = 0 THEN <<>>
    ELSE IF Strip(lines[k]) # <<>> THEN Strip(lines[k])
    ELSE LastNonBlank(lines, k - 1)

\* Faulty variant of extract_final_transcription: the marker is looked for
\* before the sentinel.
extract_marker_first(lines) ==
    LET m == FirstMarker(lines, 1)
        s == IF m = 0 THEN <<>> ELSE ScanAfter(lines, m + 1)
    IN  IF s # <<>> THEN s
        ELSE IF HasSentinelLine(lines) THEN <<>>
        ELSE LastNonBlank(lines, Len(lines))

\* extract_final_transcription, applied to stdout.splitlines().
extract_final_transcription(lines) ==
    IF HasSentinelLine(lines) THEN <<>>
    ELSE LET m == FirstMarker(lines, 1)
             s == IF m = 0 THEN <<>> ELSE ScanAfter(lines, m + 1)
         IN  IF s # <<>> THEN s ELSE LastNonBlank(lines, Len(lines))

\* -------------------------------------------------------------- wer_light

UpperCase ==
    <<"A","B","C","D","E","F","G","H","I","J","K","L","M",
      "N","O","P","Q","R","S","T","U","V","W","X","Y","Z">>

LowerCase ==
    <<"a","b","c","d","e","f","g","h","i","j","k","l","m",
      "n","o","p","q","r","s","t","u","v","w","x","y","z">>

Digits == <<"0","1","2","3","4","5","6","7","8","9">>

UpperSet == { UpperCase[k] : k \in 1..26 }

ToLower == [c \in UpperSet |-> LowerCase[CHOOSE k \in 1..26 : UpperCase[k] = c]]

\* The characters of the alphabet for which ch.isalnum() holds.
AlnumSet == UpperSet \cup { LowerCase[k] : k \in 1..26 } \cup { Digits[k] : k \in 1..10 }

\* str.lower(), one character.
Lower(c) == IF c \in UpperSet THEN ToLower[c] ELSE c

\* The six str.replace calls of norm, one character: the characters U+2019,
\* U+2018, U+201C, U+201D, U+2014 and U+2026 are written by their code points.
Replace(c) ==
    CASE c \in {"U+2019", "U+2018"} -> <<"'">>
      [] c \in {"U+201C", "U+201D"} -> <<"\"">>
      [] c = "U+2014" -> <<"-">>
      [] c = "U+2026" -> <<".", ".", ".">>
      [] OTHER -> <<c>>

RECURSIVE LowerReplace(_)
LowerReplace(x) ==
    IF x = <<>> THEN <<>> ELSE Replace(Lower(Head(x))) \o LowerReplace(Tail(x))

\* str.split(): the maximal runs of non-whitespace characters.
RECURSIVE SplitWs(_, _)
SplitWs(t, cur) ==
    IF t = <<>> THEN (IF cur = <<>> THEN <<>> ELSE <<cur>>)
    ELSE IF IsSpace(Head(t))
         THEN (IF cur = <<>> THEN <<>> ELSE <<cur>>) \o SplitWs(Tail(t), <<>>)
         ELSE SplitWs(Tail(t), Append(cur, Head(t)))

\* Faulty variant of norm: each pair of spaces is replaced by one space,
\* once, instead of splitting on whitespace and joining.
RECURSIVE ReplacePairs(_)
ReplacePairs(t) ==
    IF t = <<>> THEN <<>>
    ELSE IF Len(t) >= 2 /\ t[1] = " " /\ t[2] = " "
         THEN <<" ">> \o ReplacePairs(SubSeq(t, 3, Len(t)))
         ELSE <<Head(t)>> \o ReplacePairs(Tail(t))

norm_replace_pairs(x) == ReplacePairs(LowerReplace(x))

\* wer_light.norm
norm(x) == Join(SplitWs(LowerReplace(x), <<>>), <<" ">>)

\* ch.isalnum() or ch == "'"
IsTokenChar(ch) == ch \in AlnumSet \/ ch = "'"

\* Faulty variant of TokenizeFrom: the running token is not appended at the
\* end of the string.
RECURSIVE TokenizeNoFlush(_, _)
TokenizeNoFlush(x, cur) ==
    IF x = <<>> THEN <<>>
    ELSE IF IsTokenChar(Head(x))
         THEN TokenizeNoFlush(Tail(x), Append(cur, Head(x)))
         ELSE (IF cur # <<>> THEN <<cur>> ELSE <<>>) \o TokenizeNoFlush(Tail(x), <<>>)

\* wer_light.tokenize: the loop over the characters, with the running token cur.
RECURSIVE TokenizeFrom(_, _)
TokenizeFrom(x, cur) ==
    IF x = <<>> THEN (IF cur # <<>> THEN <<cur>> ELSE <<>>)
    ELSE IF IsTokenChar(Head(x))
         THEN TokenizeFrom(Tail(x), Append(cur, Head(x)))
         ELSE (IF cur # <<>> THEN <<cur>> ELSE <<>>) \o TokenizeFrom(Tail(x), <<>>)

tokenize(x) == TokenizeFrom(x, <<>>)

\* Faulty variant of Dp: a word of the hypothesis that is inserted costs two.
RECURSIVE DpInsertTwo(_, _, _, _)
DpInsertTwo(r, h, i, j) ==
    IF i = 0 THEN j
    ELSE IF j = 0 THEN i
    ELSE LET cost == IF r[i] = h[j] THEN 0 ELSE 1
         IN  Min2(Min2(DpInsertTwo(r, h, i - 1, j) + 1, DpInsertTwo(r, h, i, j - 1) + 2),
                  DpInsertTwo(r, h, i - 1, j - 1) + cost)

\* Faulty variant of Dp: the column of the empty hypothesis is left at zero.
RECURSIVE DpFirstColumnZero(_, _, _, _)
DpFirstColumnZero(r, h, i, j) ==
    IF i = 0 THEN j
    ELSE IF j = 0 THEN 0
    ELSE LET cost == IF r[i] = h[j] THEN 0 ELSE 1
         IN  Min2(Min2(DpFirstColumnZero(r, h, i - 1, j) + 1,
                       DpFirstColumnZero(r, h, i, j - 1) + 1),
                  DpFirstColumnZero(r, h, i - 1, j - 1) + cost)

\* Faulty variant of Dp: every aligned pair of words costs one edit, equal or not.
RECURSIVE DpNoMatch(_, _, _, _)
DpNoMatch(r, h, i, j) ==
    IF i = 0 THEN j
    ELSE IF j = 0 THEN i
    ELSE Min2(Min2(DpNoMatch(r, h, i - 1, j) + 1, DpNoMatch(r, h, i, j - 1) + 1),
              DpNoMatch(r, h, i - 1, j - 1) + 1)

\* dp[i][j] of wer_light, by its recurrence.
RECURSIVE Dp(_, _, _, _)
Dp(r, h, i, j) ==
    IF i = 0 THEN j
    ELSE IF j = 0 THEN i
    ELSE LET cost == IF r[i] = h[j] THEN 0 ELSE 1
         IN  Min2(Min2(Dp(r, h, i - 1, j) + 1, Dp(r, h, i, j - 1) + 1),
                  Dp(r, h, i - 1, j - 1) + cost)

\* Faulty variant of wer_tokens: the empty reference is not set apart, and
\* the edits are divided by n = 0.
wer_tokens_unguarded(r, h) ==
    LET edits == Dp(r, h, Len(r), Len(h))
    IN  [num |-> edits, den |-> Len(r), edits |-> edits, n |-> Len(r)]

\* wer_light on token sequences: the ratio is kept as the fraction num/den.
wer_tokens(r, h) ==
    LET n == Len(r)
        m == Len(h)
    IN  IF n = 0
        THEN [num |-> IF m = 0 THEN 0 ELSE 1, den |-> 1, edits |-> m, n |-> n]
        ELSE LET edits == Dp(r, h, n, m)
             IN  [num |-> edits, den |-> n, edits |-> edits, n |-> n]

wer_light(ref, hyp) ==
    LET r == tokenize(norm(ref))
        h == tokenize(norm(hyp))
    IN  wer_tokens(r, h)

\* ------------------------------------------------------------------ state

VARIABLES
    pc,                 \* position in run_batch (or "parse"/"parsed" for the parser alone)
    texts,              \* texts_to_synthesize(): the corpus of the run
    manifest_exists,    \* whether tts_outputs/manifest.txt exists
    manifest,           \* its content
    idx,                \* the synthesis loop's index (1-based)
    tts_calls,          \* the TTS commands spawned so far, in order
    tts_exits,          \* the exit codes of the TTS commands that returned
    unique_items,       \* the OrderedDict path -> ref, as a sequence of entries
    i,                  \* the transcription loop's index (1-based)
    hyp,                \* the current item's hypothesis
    asr_calls,          \* the ASR commands spawned so far, in order
    asr_exits,          \* exit code and parsed output of the ASR commands that returned
    tsv,                \* the content written to tts_outputs/asr_hyp.tsv
    ridx,               \* the report loop's index (1-based)
    overall_edits,
    overall_ref_words,
    console,            \* the report lines printed: one record per row, then the aggregate
    ret,                \* <<>> while running, <<code>> once run_batch has returned
    stdout,             \* the lines handed to the parser on its own
    parsed,             \* the parser's result on stdout
    wer_in,             \* <<ref, hyp>> handed to wer_light on its own
    wer_out,            \* <<>> before the call, <<result>> after it
    text_in,            \* the string handed to norm and to tokenize on their own
    norm_out,           \* norm(text_in), once computed
    tok_out,            \* tokenize(text_in), once computed
    swift               \* "unknown" before ensure_swift, then "available" or "missing"

vars ==
    <<pc, texts, manifest_exists, manifest, idx, tts_calls, tts_exits, unique_items,
      i, hyp, asr_calls, asr_exits, tsv, ridx, overall_edits, overall_ref_words,
      console, ret, stdout, parsed, wer_in, wer_out, text_in, norm_out, tok_out,
      swift>>

\* The variables of wer_light and its helpers applied on their own.
text_vars == <<wer_in, wer_out, text_in, norm_out, tok_out>>

\* No text function is being applied on its own.
TextIdle ==
    /\ wer_in = <<>>
    /\ wer_out = <<>>
    /\ text_in = <<>>
    /\ norm_out = <<>>
    /\ tok_out = <<>>

\* --------------------------------------------------------- input alphabets

\* Corpus texts a run may be given (none holds a tab or a line break, as in
\* texts_to_synthesize).
TextSet == { <<"H","i",".">>, <<"a"," ","b">> }

Corpora == UNION { [1..n -> TextSet] : n \in 1..MaxTexts }

\* Exit codes of the TTS executable.
TtsExitCodes == {0, 2, 7}

\* Exit codes of the ASR executable.
AsrExitCodes == {0, 1}

\* " xyz"
Xyz == <<" ","x","y","z">>

\* Standard outputs of the ASR executable, as stdout.splitlines().
AsrOutputs ==
    { <<>>,
      << <<"l","o","g">>, Sentinel \o Xyz >>,
      << Marker, <<>>, <<" ","h","i">> >>,
      << <<"a"," ","b">>, <<" ">> >> }

\* --------------------------------------------------- run_batch: synthesis

\* f"{idx:02d}"
\* Faulty variant of Pad2: the tens of the index are written twice.
Pad2Tens(k) == << Digits[((k \div 10) % 10) + 1], Digits[((k \div 10) % 10) + 1] >>

Pad2(k) == << Digits[((k \div 10) % 10) + 1], Digits[(k % 10) + 1] >>

\* out_dir / f"out_{idx:02d}.wav", as a string
OutFile(k) ==
    <<"t","t","s","_","o","u","t","p","u","t","s","/","o","u","t","_">>
        \o Pad2(k) \o <<".","w","a","v">>

\* Faulty variant of AutoDownload: the flag is passed to every invocation.
AutoDownloadAlways(k) == k >= 1

\* if idx == 1: cmd.append("--auto-download")
AutoDownload(k) == k = 1

\* The TTS command of utterance k.
TtsCmd(k) ==
    [idx |-> k, text |-> texts[k], auto_download |-> AutoDownload(k),
     output |-> OutFile(k)]

\* Faulty variant of CalledProcessError: the exit code is not checked.
ExitCodeIgnored(code) == FALSE

\* subprocess.run(..., check=True) raises CalledProcessError on a non-zero exit.
CalledProcessError(code) == code # 0

\* Faulty variant of ManifestLine: the line break is left out.
ManifestLineNoBreak(outfile, text) == outfile \o <<"\t">> \o text

\* f"{outfile}\t{text}\n"
ManifestLine(outfile, text) == outfile \o <<"\t">> \o text \o <<"\n">>

\* A manifest left behind by an earlier run.
StaleManifest == ManifestLine(OutFile(1), <<"o","l","d">>)

Init ==
    /\ pc = "start"
    /\ swift = "unknown"
    /\ texts \in Corpora
    /\ manifest_exists \in BOOLEAN
    /\ manifest = IF manifest_exists THEN StaleManifest ELSE <<>>
    /\ idx = 0
    /\ tts_calls = <<>>
    /\ tts_exits = <<>>
    /\ unique_items = <<>>
    /\ i = 0
    /\ hyp = <<>>
    /\ asr_calls = <<>>
    /\ asr_exits = <<>>
    /\ tsv = <<>>
    /\ ridx = 0
    /\ overall_edits = 0
    /\ overall_ref_words = 0
    /\ console = <<>>
    /\ ret = <<>>
    /\ stdout = <<>>
    /\ parsed = <<>>
    /\ TextIdle

\* Faulty variant of Start: the manifest of an earlier run is kept.
StartKeepManifest ==
    /\ pc = "start"
    /\ idx' = 1
    /\ pc' = "synth"
    /\ UNCHANGED text_vars
    /\ UNCHANGED swift
    /\ UNCHANGED <<texts, manifest_exists, manifest, tts_calls, tts_exits, unique_items,
                   i, hyp, asr_calls, asr_exits, tsv, ridx, overall_edits,
                   overall_ref_words, console, ret, stdout, parsed>>

\* run_batch up to the synthesis loop: the manifest of an earlier run is removed.
Start ==
    /\ pc = "start"
    /\ manifest_exists' = FALSE
    /\ manifest' = <<>>
    /\ idx' = 1
    /\ pc' = "synth"
    /\ UNCHANGED text_vars
    /\ UNCHANGED swift
    /\ UNCHANGED <<texts, tts_calls, tts_exits, unique_items, i, hyp, asr_calls,
                   asr_exits, tsv, ridx, overall_edits, overall_ref_words, console,
                   ret, stdout, parsed>>

\* Faulty variant of SynthInvoke: the TTS executable is spawned and the loop
\* goes on, manifest line included, without waiting for it to return.
SynthInvokeNoWait ==
    /\ pc = "synth"
    /\ idx <= Len(texts)
    /\ tts_calls' = Append(tts_calls, TtsCmd(idx))
    /\ manifest_exists' = TRUE
    /\ manifest' = manifest \o ManifestLine(OutFile(idx), texts[idx])
    /\ idx' = idx + 1
    /\ pc' = IF idx + 1 <= Len(texts) THEN "synth" ELSE "read"
    /\ UNCHANGED text_vars
    /\ UNCHANGED swift
    /\ UNCHANGED <<texts, tts_exits, unique_items, i, hyp, asr_calls, asr_exits, tsv,
                   ridx, overall_edits, overall_ref_words, console, ret, stdout,
                   parsed>>

\* One iteration of the synthesis loop up to the spawn of the TTS executable.
SynthInvoke ==
    /\ pc = "synth"
    /\ idx <= Len(texts)
    /\ tts_calls' = Append(tts_calls, TtsCmd(idx))
    /\ pc' = "tts_wait"
    /\ UNCHANGED text_vars
    /\ UNCHANGED swift
    /\ UNCHANGED <<texts, manifest_exists, manifest, idx, tts_exits, unique_items, i,
                   hyp, asr_calls, asr_exits, tsv, ridx, overall_edits,
                   overall_ref_words, console, ret, stdout, parsed>>

\* The TTS executable exits with code: run_batch returns the code when it is
\* not zero, and otherwise appends the manifest line and goes on.
SynthReturn ==
    /\ pc = "tts_wait"
    /\ \E code \in TtsExitCodes :
        /\ tts_exits' = Append(tts_exits, code)
        /\ IF CalledProcessError(code)
           THEN /\ ret' = <<code>>
                /\ pc' = "done"
                /\ UNCHANGED <<manifest_exists, manifest, idx>>
           ELSE /\ manifest_exists' = TRUE
                /\ manifest' = manifest \o ManifestLine(OutFile(idx), texts[idx])
                /\ idx' = idx + 1
                /\ pc' = IF idx + 1 <= Len(texts) THEN "synth" ELSE "read"
                /\ UNCHANGED ret
    /\ UNCHANGED text_vars
    /\ UNCHANGED swift
    /\ UNCHANGED <<texts, tts_calls, unique_items, i, hyp, asr_calls, asr_exits, tsv,
                   ridx, overall_edits, overall_ref_words, console, stdout, parsed>>

\* ------------------------------------------------ run_batch: transcription

\* s.split(c, maxsplit), for a single separator character c.
RECURSIVE SplitMax(_, _, _)
SplitMax(s, c, maxsplit) ==
    LET k == FindChar(s, c, 1)
    IN  IF maxsplit = 0 \/ k = 0 THEN <<s>>
        ELSE <<SubSeq(s, 1, k - 1)>> \o SplitMax(SubSeq(s, k + 1, Len(s)), c, maxsplit - 1)

\* Faulty variant of DictPut: every line is kept.
DictPutAppend(d, path, ref) == Append(d, [path |-> path, ref |-> ref])

\* unique_items[path_str] = ref on an OrderedDict: a new key goes last, a
\* known key keeps its position and takes the new value.
DictPut(d, path, ref) ==
    IF \E k \in 1..Len(d) : d[k].path = path
    THEN [k \in 1..Len(d) |-> IF d[k].path = path THEN [path |-> path, ref |-> ref] ELSE d[k]]
    ELSE Append(d, [path |-> path, ref |-> ref])

\* The loop over the manifest's lines: empty lines and lines without a tab
\* are skipped.
RECURSIVE ReadLines(_, _)
ReadLines(lines, d) ==
    IF lines = <<>> THEN d
    ELSE LET line == Head(lines)
             parts == SplitMax(line, "\t", 1)
         IN  IF line = <<>> \/ Len(parts) < 2
             THEN ReadLines(Tail(lines), d)
             ELSE ReadLines(Tail(lines), DictPut(d, parts[1], parts[2]))

\* The deduplicated items of a manifest's content.
Dedupe(data) == ReadLines(SplitOn(data, "\n"), <<>>)

\* Faulty variant of NeedsRetry: no retry at all.
NeedsRetryNever(h) == FALSE

\* if not hyp or hyp.startswith("Batch transcription failed:")
NeedsRetry(h) == h = <<>> \/ StartsWith(h, Sentinel)

\* Faulty variant of RetryResult: the retry's hypothesis is dropped.
RetryResultKeep(h, code2, h2) == h

\* The hypothesis after the streaming retry exited with code2 and parsed to h2.
RetryResult(h, code2, h2) ==
    IF ~CalledProcessError(code2) /\ h2 # <<>> THEN h2 ELSE h

\* Faulty variant of FailedHyp: hyp keeps the value of the previous item.
StaleHyp == hyp

\* except subprocess.CalledProcessError: hyp = ""
FailedHyp == <<>>

\* f"{path_str}\t{ref}\t{hyp}\n"
TsvLine(path, ref, h) == path \o <<"\t">> \o ref \o <<"\t">> \o h \o <<"\n">>

\* The ASR command on a path.
AsrCmd(path, streaming) == [path |-> path, streaming |-> streaming]

\* The manifest is read and deduplicated, the report file is opened for writing.
ReadManifest ==
    /\ pc = "read"
    /\ manifest_exists
    /\ unique_items' = Dedupe(manifest)
    /\ tsv' = <<>>
    /\ i' = 1
    /\ ridx' = 1
    /\ pc' = IF unique_items' = <<>> THEN "report" ELSE "asr"
    /\ UNCHANGED text_vars
    /\ UNCHANGED swift
    /\ UNCHANGED <<texts, manifest_exists, manifest, idx, tts_calls, tts_exits, hyp,
                   asr_calls, asr_exits, overall_edits, overall_ref_words, console,
                   ret, stdout, parsed>>

\* out.write of the row of item i with hypothesis h, and the step to the next item.
WriteRow(h) ==
    /\ hyp' = h
    /\ tsv' = tsv \o TsvLine(unique_items[i].path, unique_items[i].ref, h)
    /\ i' = i + 1
    /\ pc' = IF i + 1 <= Len(unique_items) THEN "asr" ELSE "report"

\* One iteration of the transcription loop up to the spawn of the ASR executable.
AsrInvoke ==
    /\ pc = "asr"
    /\ i <= Len(unique_items)
    /\ asr_calls' = Append(asr_calls, AsrCmd(unique_items[i].path, FALSE))
    /\ pc' = "asr_wait"
    /\ UNCHANGED text_vars
    /\ UNCHANGED swift
    /\ UNCHANGED <<texts, manifest_exists, manifest, idx, tts_calls, tts_exits,
                   unique_items, i, hyp, asr_exits, tsv, ridx, overall_edits,
                   overall_ref_words, console, ret, stdout, parsed>>

\* Faulty variant of AsrReturn: the streaming retry is also made when the
\* primary invocation exits with a non-zero code.
AsrReturnRetryOnFailure ==
    /\ pc = "asr_wait"
    /\ \E code \in AsrExitCodes, out \in AsrOutputs :
        LET h == IF CalledProcessError(code) THEN <<>>
                 ELSE extract_final_transcription(out)
        IN  /\ asr_exits' = Append(asr_exits, [code |-> code, hyp |-> h])
            /\ IF NeedsRetry(h)
               THEN /\ hyp' = h
                    /\ asr_calls' =
                           Append(asr_calls, AsrCmd(unique_items[i].path, TRUE))
                    /\ pc' = "retry_wait"
                    /\ UNCHANGED <<tsv, i>>
               ELSE /\ WriteRow(h)
                    /\ UNCHANGED asr_calls
    /\ UNCHANGED text_vars
    /\ UNCHANGED swift
    /\ UNCHANGED <<texts, manifest_exists, manifest, idx, tts_calls, tts_exits,
                   unique_items, ridx, overall_edits, overall_ref_words, console, ret,
                   stdout, parsed>>

\* The primary ASR invocation exits with code and standard output out.
AsrReturn ==
    /\ pc = "asr_wait"
    /\ \E code \in AsrExitCodes, out \in AsrOutputs :
        IF CalledProcessError(code)
        THEN /\ asr_exits' = Append(asr_exits, [code |-> code, hyp |-> <<>>])
             /\ WriteRow(FailedHyp)
             /\ UNCHANGED asr_calls
        ELSE LET h == extract_final_transcription(out)
             IN  /\ asr_exits' = Append(asr_exits, [code |-> code, hyp |-> h])
                 /\ IF NeedsRetry(h)
                    THEN /\ hyp' = h
                         /\ asr_calls' =
                                Append(asr_calls, AsrCmd(unique_items[i].path, TRUE))
                         /\ pc' = "retry_wait"
                         /\ UNCHANGED <<tsv, i>>
                    ELSE /\ WriteRow(h)
                         /\ UNCHANGED asr_calls
    /\ UNCHANGED text_vars
    /\ UNCHANGED swift
    /\ UNCHANGED <<texts, manifest_exists, manifest, idx, tts_calls, tts_exits,
                   unique_items, ridx, overall_edits, overall_ref_words, console, ret,
                   stdout, parsed>>

\* The streaming retry exits with code and standard output out.
RetryReturn ==
    /\ pc = "retry_wait"
    /\ \E code \in AsrExitCodes, out \in AsrOutputs :
        LET h2 == IF CalledProcessError(code) THEN <<>>
                  ELSE extract_final_transcription(out)
        IN  /\ asr_exits' = Append(asr_exits, [code |-> code, hyp |-> h2])
            /\ WriteRow(RetryResult(hyp, code, h2))
    /\ UNCHANGED text_vars
    /\ UNCHANGED swift
    /\ UNCHANGED <<texts, manifest_exists, manifest, idx, tts_calls, tts_exits,
                   unique_items, asr_calls, ridx, overall_edits, overall_ref_words,
                   console, ret, stdout, parsed>>

\* ------------------------------------------------------ run_batch: report

\* asr_tsv.read_text().splitlines()
TsvRows ==
    LET parts == SplitOn(tsv, "\n")
    IN  IF parts[Len(parts)] = <<>> THEN SubSeq(parts, 1, Len(parts) - 1) ELSE parts

\* One iteration of the report loop: a row without two tabs is skipped.
ReportRow ==
    /\ pc = "report"
    /\ LET rows == TsvRows
       IN  /\ ridx <= Len(rows)
           /\ LET parts == SplitMax(rows[ridx], "\t", 2)
              IN  IF Len(parts) < 3
                  THEN UNCHANGED <<overall_edits, overall_ref_words, console>>
                  ELSE LET w == wer_light(parts[2], parts[3])
                       IN  /\ overall_edits' = overall_edits + w.edits
                           /\ overall_ref_words' = overall_ref_words + w.n
                           /\ console' = Append(console,
                                  [kind |-> "row", idx |-> ridx, ref |-> parts[2],
                                   hyp |-> parts[3], num |-> w.num, den |-> w.den])
    /\ ridx' = ridx + 1
    /\ UNCHANGED text_vars
    /\ UNCHANGED swift
    /\ UNCHANGED <<pc, texts, manifest_exists, manifest, idx, tts_calls, tts_exits,
                   unique_items, i, hyp, asr_calls, asr_exits, tsv, ret, stdout, parsed>>

\* Faulty variant of ReportDone: the aggregate line is printed whatever the
\* number of reference words.
ReportDoneUnguarded ==
    /\ pc = "report"
    /\ ridx > Len(TsvRows)
    /\ console' = Append(console,
                      [kind |-> "overall", idx |-> 0, ref |-> <<>>, hyp |-> <<>>,
                       num |-> overall_edits, den |-> overall_ref_words])
    /\ ret' = <<0>>
    /\ pc' = "done"
    /\ UNCHANGED text_vars
    /\ UNCHANGED swift
    /\ UNCHANGED <<texts, manifest_exists, manifest, idx, tts_calls, tts_exits,
                   unique_items, i, hyp, asr_calls, asr_exits, tsv, ridx,
                   overall_edits, overall_ref_words, stdout, parsed>>

\* After the last row: the aggregate line is printed when there are reference
\* words, and run_batch returns 0.
ReportDone ==
    /\ pc = "report"
    /\ ridx > Len(TsvRows)
    /\ console' =
           IF overall_ref_words > 0
           THEN Append(console,
                    [kind |-> "overall", idx |-> 0, ref |-> <<>>, hyp |-> <<>>,
                     num |-> overall_edits, den |-> overall_ref_words])
           ELSE console
    /\ ret' = <<0>>
    /\ pc' = "done"
    /\ UNCHANGED text_vars
    /\ UNCHANGED swift
    /\ UNCHANGED <<texts, manifest_exists, manifest, idx, tts_calls, tts_exits,
                   unique_items, i, hyp, asr_calls, asr_exits, tsv, ridx,
                   overall_edits, overall_ref_words, stdout, parsed>>

Next ==
    \/ Start
    \/ SynthInvoke
    \/ SynthReturn
    \/ ReadManifest
    \/ AsrInvoke
    \/ AsrReturn
    \/ RetryReturn
    \/ ReportRow
    \/ ReportDone

Spec == Init /\ [][Next]_vars

\* ------------------------------------------------------------------- main

\* sys.exit(2) of ensure_swift
SwiftMissingCode == 2

\* The state main() is called in.
InitMain ==
    /\ pc = "main"
    /\ swift = "unknown"
    /\ texts \in Corpora
    /\ manifest_exists \in BOOLEAN
    /\ manifest = IF manifest_exists THEN StaleManifest ELSE <<>>
    /\ idx = 0
    /\ tts_calls = <<>>
    /\ tts_exits = <<>>
    /\ unique_items = <<>>
    /\ i = 0
    /\ hyp = <<>>
    /\ asr_calls = <<>>
    /\ asr_exits = <<>>
    /\ tsv = <<>>
    /\ ridx = 0
    /\ overall_edits = 0
    /\ overall_ref_words = 0
    /\ console = <<>>
    /\ ret = <<>>
    /\ stdout = <<>>
    /\ parsed = <<>>
    /\ TextIdle

\* ensure_swift: the process exits with code 2 when "swift --version" cannot
\* be run or fails; a failure of "swift build" is ignored. Then run_batch is
\* called.
ensure_swift ==
    /\ pc = "main"
    /\ \E version_ok \in BOOLEAN, build_ok \in BOOLEAN :
        IF version_ok
        THEN /\ swift' = "available"
             /\ pc' = "start"
             /\ UNCHANGED ret
        ELSE /\ swift' = "missing"
             /\ ret' = <<SwiftMissingCode>>
             /\ pc' = "done"
    /\ UNCHANGED text_vars
    /\ UNCHANGED <<texts, manifest_exists, manifest, idx, tts_calls, tts_exits,
                   unique_items, i, hyp, asr_calls, asr_exits, tsv, ridx, overall_edits,
                   overall_ref_words, console, stdout, parsed>>

\* main: ensure_swift, then run_batch, whose result is the exit code.
NextMain ==
    \/ ensure_swift
    \/ Next

SpecMain == InitMain /\ [][NextMain]_vars

\* ------------------------------- the transcription phase on a given manifest

\* The manifest read at line 108 is whatever the file holds; these are the
\* lines it is made of here: two paths, two reference texts and a line
\* without a tab.
ManifestLineSet ==
    { ManifestLine(OutFile(1), <<"a"," ","b">>),
      ManifestLine(OutFile(1), <<"H","i",".">>),
      ManifestLine(OutFile(2), <<"a"," ","b">>),
      <<"o","l","d","\n">> }

RECURSIVE Concat(_)
Concat(parts) == IF parts = <<>> THEN <<>> ELSE Head(parts) \o Concat(Tail(parts))

Manifests ==
    { Concat(ls) : ls \in UNION { [1..n -> ManifestLineSet] : n \in 0..MaxManifestLines } }

InitPhase2 ==
    /\ pc = "read"
    /\ swift = "unknown"
    /\ texts = <<>>
    /\ manifest_exists = TRUE
    /\ manifest \in Manifests
    /\ idx = 0
    /\ tts_calls = <<>>
    /\ tts_exits = <<>>
    /\ unique_items = <<>>
    /\ i = 0
    /\ hyp = <<>>
    /\ asr_calls = <<>>
    /\ asr_exits = <<>>
    /\ tsv = <<>>
    /\ ridx = 0
    /\ overall_edits = 0
    /\ overall_ref_words = 0
    /\ console = <<>>
    /\ ret = <<>>
    /\ stdout = <<>>
    /\ parsed = <<>>
    /\ TextIdle

NextPhase2 ==
    \/ ReadManifest
    \/ AsrInvoke
    \/ AsrReturn
    \/ RetryReturn
    \/ ReportRow
    \/ ReportDone

SpecPhase2 == InitPhase2 /\ [][NextPhase2]_vars

\* ------------------------------------------------------ the parser alone

\* "hello world"
HelloWorld == <<"h","e","l","l","o"," ","w","o","r","l","d">>

\* Lines a process output is made of here: empty and blank lines, the
\* sentinel at the start of a line (indented) and inside a line, the marker,
\* a text line, and rules of six and of five characters.
ParserLines ==
    { <<>>,
      <<" ">>,
      <<" ">> \o Sentinel \o Xyz,
      <<"x"," ">> \o Sentinel \o Xyz,
      <<" ">> \o Marker,
      <<" ">> \o HelloWorld \o <<" ">>,
      <<"=","=","=","=","=","=">>,
      <<"-","-","=","-","-">> }

ParserInputs == UNION { [1..n -> ParserLines] : n \in 0..MaxLines }

InitParser ==
    /\ pc = "parse"
    /\ swift = "unknown"
    /\ stdout \in ParserInputs
    /\ parsed = <<>>
    /\ texts = <<>>
    /\ manifest_exists = FALSE
    /\ manifest = <<>>
    /\ idx = 0
    /\ tts_calls = <<>>
    /\ tts_exits = <<>>
    /\ unique_items = <<>>
    /\ i = 0
    /\ hyp = <<>>
    /\ asr_calls = <<>>
    /\ asr_exits = <<>>
    /\ tsv = <<>>
    /\ ridx = 0
    /\ overall_edits = 0
    /\ overall_ref_words = 0
    /\ console = <<>>
    /\ ret = <<>>
    /\ TextIdle

\* extract_final_transcription is applied to the output.
Parse ==
    /\ pc = "parse"
    /\ parsed' = extract_final_transcription(stdout)
    /\ pc' = "parsed"
    /\ UNCHANGED text_vars
    /\ UNCHANGED swift
    /\ UNCHANGED <<texts, manifest_exists, manifest, idx, tts_calls, tts_exits,
                   unique_items, i, hyp, asr_calls, asr_exits, tsv, ridx,
                   overall_edits, overall_ref_words, console, ret, stdout>>

NextParser == Parse

SpecParser == InitParser /\ [][NextParser]_vars

\* ------------------------------------------------------- wer_light alone

\* The most words a generated text is made of.
MaxWords == 3

\* Words the texts are made of: two plain words, a capitalised word with a
\* full stop, and the ellipsis character, which holds no word at all.
WerWords == { <<"a">>, <<"b">>, <<"B", ".">>, <<"U+2026">> }

\* "He is an expert" and "He is an expertt"
HeIsAnExpert ==
    <<"H","e"," ","i","s"," ","a","n"," ","e","x","p","e","r","t">>

HeIsAnExpertt == HeIsAnExpert \o <<"t">>

\* The reference and hypothesis strings wer_light is applied to: up to
\* MaxWords words separated by one space (the empty string included), and
\* the two sentences above.
WerTexts ==
    { Join(ws, <<" ">>) : ws \in UNION { [1..n -> WerWords] : n \in 0..MaxWords } }
        \cup { HeIsAnExpert, HeIsAnExpertt }

InitWer ==
    /\ pc = "wer"
    /\ swift = "unknown"
    /\ wer_in \in WerTexts \X WerTexts
    /\ wer_out = <<>>
    /\ text_in = <<>>
    /\ norm_out = <<>>
    /\ tok_out = <<>>
    /\ texts = <<>>
    /\ manifest_exists = FALSE
    /\ manifest = <<>>
    /\ idx = 0
    /\ tts_calls = <<>>
    /\ tts_exits = <<>>
    /\ unique_items = <<>>
    /\ i = 0
    /\ hyp = <<>>
    /\ asr_calls = <<>>
    /\ asr_exits = <<>>
    /\ tsv = <<>>
    /\ ridx = 0
    /\ overall_edits = 0
    /\ overall_ref_words = 0
    /\ console = <<>>
    /\ ret = <<>>
    /\ stdout = <<>>
    /\ parsed = <<>>

\* wer_light is applied to the reference and the hypothesis.
WerLight ==
    /\ pc = "wer"
    /\ wer_out' = <<wer_light(wer_in[1], wer_in[2])>>
    /\ pc' = "wer_done"
    /\ UNCHANGED <<wer_in, text_in, norm_out, tok_out, swift>>
    /\ UNCHANGED <<texts, manifest_exists, manifest, idx, tts_calls, tts_exits,
                   unique_items, i, hyp, asr_calls, asr_exits, tsv, ridx,
                   overall_edits, overall_ref_words, console, ret, stdout, parsed>>

NextWer == WerLight

SpecWer == InitWer /\ [][NextWer]_vars

\* ------------------------------------------------ norm and tokenize alone

\* The longest string norm and tokenize are applied to.
MaxChars == 3

\* Two letters, a digit, the space and the tab, three ASCII punctuation
\* characters and the six characters norm replaces.
TextAlphabet ==
    { "a", "B", "1", " ", "\t", ".", "'", "-",
      "U+2019", "U+2018", "U+201C", "U+201D", "U+2014", "U+2026" }

TextInputs == UNION { [1..n -> TextAlphabet] : n \in 0..MaxChars }

InitText ==
    /\ pc = "text"
    /\ swift = "unknown"
    /\ text_in \in TextInputs
    /\ norm_out = <<>>
    /\ tok_out = <<>>
    /\ wer_in = <<>>
    /\ wer_out = <<>>
    /\ texts = <<>>
    /\ manifest_exists = FALSE
    /\ manifest = <<>>
    /\ idx = 0
    /\ tts_calls = <<>>
    /\ tts_exits = <<>>
    /\ unique_items = <<>>
    /\ i = 0
    /\ hyp = <<>>
    /\ asr_calls = <<>>
    /\ asr_exits = <<>>
    /\ tsv = <<>>
    /\ ridx = 0
    /\ overall_edits = 0
    /\ overall_ref_words = 0
    /\ console = <<>>
    /\ ret = <<>>
    /\ stdout = <<>>
    /\ parsed = <<>>

\* norm is applied to the string.
Normalize ==
    /\ pc = "text"
    /\ norm_out' = norm(text_in)
    /\ pc' = "normalized"
    /\ UNCHANGED <<text_in, tok_out, wer_in, wer_out, swift>>
    /\ UNCHANGED <<texts, manifest_exists, manifest, idx, tts_calls, tts_exits,
                   unique_items, i, hyp, asr_calls, asr_exits, tsv, ridx,
                   overall_edits, overall_ref_words, console, ret, stdout, parsed>>

\* tokenize is applied to the string.
Tokenize ==
    /\ pc = "normalized"
    /\ tok_out' = tokenize(text_in)
    /\ pc' = "tokenized"
    /\ UNCHANGED <<text_in, norm_out, wer_in, wer_out, swift>>
    /\ UNCHANGED <<texts, manifest_exists, manifest, idx, tts_calls, tts_exits,
                   unique_items, i, hyp, asr_calls, asr_exits, tsv, ridx,
                   overall_edits, overall_ref_words, console, ret, stdout, parsed>>

NextText ==
    \/ Normalize
    \/ Tokenize

SpecText == InitText /\ [][NextText]_vars

\* ================================================================ properties

\* ------------------------------------------------ reading the run's history

\* The rows of the report file written so far, split into their fields.
RECURSIVE SplitRows(_)
SplitRows(lines) ==
    IF lines = <<>> THEN <<>>
    ELSE LET parts == SplitMax(Head(lines), "\t", 2)
         IN  << [path |-> parts[1], ref |-> parts[2], hyp |-> parts[3]] >>
                 \o SplitRows(Tail(lines))

Rows == SplitRows(TsvRows)

\* The ASR invocations made on a path, by mode.
PrimaryCalls(path) ==
    { k \in 1..Len(asr_calls) : asr_calls[k].path = path /\ ~asr_calls[k].streaming }

StreamingCalls(path) ==
    { k \in 1..Len(asr_calls) : asr_calls[k].path = path /\ asr_calls[k].streaming }

\* The primary invocation of a written row's path.
PrimaryOf(path) == CHOOSE k \in PrimaryCalls(path) : TRUE

\* An invocation failed: non-zero exit, or an output that parses to nothing.
ExitedNonZero(k) == asr_exits[k].code # 0
ParsedEmpty(k) == asr_exits[k].code = 0 /\ asr_exits[k].hyp = <<>>

\* The transcription loop is over and every item of unique_items has its row.
PhaseTwoComplete == pc \in {"report", "done"} /\ ret \in {<<>>, <<0>>}

\* The lines of the manifest file.
ManifestFileLines ==
    LET parts == SplitOn(manifest, "\n")
    IN  IF parts[Len(parts)] = <<>> THEN SubSeq(parts, 1, Len(parts) - 1) ELSE parts

\* The well-formed entries of a sequence of manifest lines, in file order.
RECURSIVE ValidEntries(_)
ValidEntries(lines) ==
    IF lines = <<>> THEN <<>>
    ELSE LET l == Head(lines)
             t == FindChar(l, "\t", 1)
         IN  (IF l # <<>> /\ t > 0
              THEN << [path |-> SubSeq(l, 1, t - 1), ref |-> SubSeq(l, t + 1, Len(l))] >>
              ELSE <<>>) \o ValidEntries(Tail(lines))

\* The entries whose path occurs for the first time.
RECURSIVE FirstSeenFrom(_, _)
FirstSeenFrom(es, k) ==
    IF k > Len(es) THEN <<>>
    ELSE (IF \A m \in 1..(k - 1) : es[m].path # es[k].path THEN <<es[k]>> ELSE <<>>)
         \o FirstSeenFrom(es, k + 1)

FirstSeen == FirstSeenFrom(ValidEntries(ManifestFileLines), 1)

\* ---------------------------------------------------------------------- C1
\* C1: fail-fast synthesis. If the TTS invocation of utterance k exits with a
\* non-zero code c, it is the last TTS invocation of the run (no utterance
\* after k is invoked and k is not retried: invocation j is the one of
\* utterance j), and run_batch has returned exactly c.
C1_FailFast ==
    \A k \in 1..Len(tts_exits) :
        tts_exits[k] # 0 =>
            /\ Len(tts_calls) = k
            /\ \A j \in 1..k : tts_calls[j].idx = j
            /\ pc = "done"
            /\ ret = <<tts_exits[k]>>

\* Utterance 1 of a corpus of two fails with code 7.
C1_Witness ==
    /\ Len(texts) = MaxTexts
    /\ tts_exits = <<7>>
    /\ ret = <<7>>

\* ---------------------------------------------------------------------- C2
\* C2: manifest deduplication. The deduplicated item list holds each path of
\* the manifest once, at the position of its first occurrence, with the
\* reference text of its FIRST occurrence.
C2_FirstSeenReference ==
    pc # "read" => unique_items = FirstSeen

\* ---------------------------------------------------------------------- C3
\* C3 as stated: whenever an ASR invocation for an item fails, by non-zero
\* exit of the primary invocation or by empty or sentinel-flagged output,
\* exactly one streaming retry is made for the item, and if that retry fails
\* or is empty the item's hypothesis is empty.
C3_RetryOnAnyFailure ==
    LET rows == Rows
    IN  \A j \in 1..Len(rows) :
            LET p == PrimaryOf(rows[j].path)
                retries == StreamingCalls(rows[j].path)
            IN  (ExitedNonZero(p) \/ ParsedEmpty(p)) =>
                    /\ Cardinality(retries) = 1
                    /\ \A q \in retries :
                           (ExitedNonZero(q) \/ ParsedEmpty(q)) => rows[j].hyp = <<>>

\* C3 as amended: a primary invocation that exits zero with empty or
\* sentinel-flagged output gets exactly one streaming retry, and if that
\* retry fails or is empty the item's hypothesis is empty; a primary
\* invocation that exits non-zero gets no retry and the item's hypothesis is
\* empty; either way processing continues with the next item, so that every
\* item has its row when the loop is over.
C3_RetryOnEmptyOutput ==
    LET rows == Rows
    IN  /\ \A j \in 1..Len(rows) :
            LET p == PrimaryOf(rows[j].path)
                retries == StreamingCalls(rows[j].path)
            IN  /\ ParsedEmpty(p) =>
                    /\ Cardinality(retries) = 1
                    /\ \A q \in retries :
                           (ExitedNonZero(q) \/ ParsedEmpty(q)) => rows[j].hyp = <<>>
                /\ ExitedNonZero(p) =>
                    /\ retries = {}
                    /\ rows[j].hyp = <<>>
        /\ PhaseTwoComplete => Len(rows) = Len(unique_items)

\* Item 1 had an empty primary output and a failed retry, item 2 a failed
\* primary invocation, and both have their row.
C3_Witness ==
    /\ pc = "done"
    /\ Len(Rows) = 2
    /\ ParsedEmpty(PrimaryOf(Rows[1].path))
    /\ \E q \in StreamingCalls(Rows[1].path) : ExitedNonZero(q)
    /\ ExitedNonZero(PrimaryOf(Rows[2].path))

\* ---------------------------------------------------------------------- C4
\* C4: retry policy. When the primary invocation exits zero and parses to the
\* empty hypothesis, the next invocation is the streaming one on the same
\* path, and the item's final hypothesis is the retry's when the retry exits
\* zero with a non-empty hypothesis and the original one otherwise; a retry
\* that exits non-zero neither aborts the batch nor changes the exit code.
C4_RetryPolicy ==
    LET rows == Rows
    IN  /\ \A j \in 1..Len(rows) :
            LET p == PrimaryOf(rows[j].path)
            IN  ParsedEmpty(p) =>
                    /\ StreamingCalls(rows[j].path) = {p + 1}
                    /\ rows[j].hyp =
                           IF asr_exits[p + 1].code = 0 /\ asr_exits[p + 1].hyp # <<>>
                           THEN asr_exits[p + 1].hyp
                           ELSE asr_exits[p].hyp
        /\ (\E q \in 1..Len(asr_exits) : asr_calls[q].streaming /\ ExitedNonZero(q)) =>
            /\ ret \in {<<>>, <<0>>}
            /\ pc = "done" => Len(rows) = Len(unique_items)

\* An item whose empty primary output was replaced by the retry's hypothesis,
\* and one whose retry exited non-zero, in a finished run.
C4_Witness ==
    /\ pc = "done"
    /\ \E j \in 1..Len(Rows) :
        /\ ParsedEmpty(PrimaryOf(Rows[j].path))
        /\ Rows[j].hyp # <<>>
    /\ \E q \in 1..Len(asr_exits) : asr_calls[q].streaming /\ ExitedNonZero(q)

\* ---------------------------------------------------------------------- C5
\* C5: a failed transcription is not fatal. An item whose primary invocation
\* exits non-zero gets a row with the empty hypothesis, the later paths are
\* still processed, and a run whose synthesis invocations all succeeded
\* returns 0.
C5_AsrFailureNotFatal ==
    LET rows == Rows
    IN  /\ \A j \in 1..Len(rows) :
            ExitedNonZero(PrimaryOf(rows[j].path)) => rows[j].hyp = <<>>
        /\ (/\ pc = "done"
            /\ Len(tts_exits) = Len(texts)
            /\ \A k \in 1..Len(tts_exits) : tts_exits[k] = 0) =>
                /\ ret = <<0>>
                /\ Len(rows) = Len(texts)
                /\ \A j \in 1..Len(unique_items) :
                       Cardinality(PrimaryCalls(unique_items[j].path)) = 1

\* The first item's primary invocation failed, the second item got a
\* hypothesis, and the run returned 0.
C5_Witness ==
    /\ pc = "done"
    /\ ret = <<0>>
    /\ Len(Rows) = 2
    /\ ExitedNonZero(PrimaryOf(Rows[1].path))
    /\ Rows[1].hyp = <<>>
    /\ Rows[2].hyp # <<>>

\* ---------------------------------------------------------------------- C6
\* The paths of the manifest's well-formed lines, each at its first occurrence.
FirstSeenPaths == [k \in 1..Len(FirstSeen) |-> FirstSeen[k].path]

\* C6: whatever the ASR outcomes, the transcription phase writes exactly one
\* row per unique audio path of the manifest, in first-seen path order: row j
\* is the row of the j-th unique path, the rows written are those of the
\* items already processed, and when the loop is over every unique path has
\* its row.
C6_OneRowPerPath ==
    pc # "read" =>
        LET rows == Rows
            paths == FirstSeenPaths
        IN  /\ Len(rows) <= Len(paths)
            /\ \A j \in 1..Len(rows) : rows[j].path = paths[j]
            /\ pc \in {"asr", "asr_wait", "retry_wait"} => Len(rows) = i - 1
            /\ pc \in {"report", "done"} => Len(rows) = Len(paths)

\* A manifest naming the first path twice and the second once, transcribed
\* with a failed primary invocation and a retry, has two rows.
C6_Witness ==
    /\ pc = "done"
    /\ Len(ValidEntries(ManifestFileLines)) = 3
    /\ Len(Rows) = 2
    /\ \E k \in 1..Len(asr_exits) : ExitedNonZero(k)
    /\ \E k \in 1..Len(asr_calls) : asr_calls[k].streaming

\* ---------------------------------------------------------------------- C7
\* The number of TTS invocations that exited zero.
ZeroExits == Cardinality({ k \in 1..Len(tts_exits) : tts_exits[k] = 0 })

\* C7: manifest durability. From the start of the synthesis loop on, the
\* manifest holds exactly one line <out_path>\t<text> for each utterance whose
\* TTS invocation exited zero, in corpus order; the invocation of utterance
\* k+1 is spawned only when the lines of utterances 1..k are there; and when
\* synthesis aborts at utterance k the manifest holds the lines of 1..k-1.
C7_ManifestDurable ==
    pc # "start" =>
        LET lines == ManifestFileLines
        IN  /\ Len(lines) = ZeroExits
            /\ \A k \in 1..Len(lines) :
                /\ tts_exits[k] = 0
                /\ lines[k] = OutFile(k) \o <<"\t">> \o texts[k]
            /\ Len(tts_calls) <= Len(lines) + 1
            /\ (pc = "done" /\ ret # <<0>>) => Len(lines) = Len(tts_exits) - 1
            /\ manifest_exists = (Len(lines) > 0)

\* Utterance 1 succeeded and utterance 2 failed: the manifest holds the line
\* of utterance 1 alone.
C7_Witness ==
    /\ pc = "done"
    /\ tts_exits = <<0, 7>>
    /\ ManifestFileLines = << OutFile(1) \o <<"\t">> \o texts[1] >>

\* ---------------------------------------------------------------------- C8
\* Whether p occurs in s as a substring.
Contains(s, p) ==
    \E k \in 1..(Len(s) - Len(p) + 1) : SubSeq(s, k, k + Len(p) - 1) = p

\* C8 as stated: an output that contains the text
\* "Batch transcription failed: xyz" anywhere parses to the empty string.
C8_SentinelAnywhere ==
    (pc = "parsed" /\ \E k \in 1..Len(stdout) : Contains(stdout[k], Sentinel \o Xyz)) =>
        parsed = <<>>

\* C8 as amended: an output in which some line, after trimming, starts with
\* the text "Batch transcription failed: xyz" parses to the empty string,
\* whatever surrounds that line.
C8_SentinelAtLineStart ==
    (pc = "parsed" /\ \E k \in 1..Len(stdout) :
                          LET l == Strip(stdout[k])
                          IN  /\ Len(l) >= Len(Sentinel \o Xyz)
                              /\ SubSeq(l, 1, Len(Sentinel \o Xyz)) = Sentinel \o Xyz) =>
        parsed = <<>>

\* An indented sentinel line between two text lines.
C8_Witness ==
    /\ pc = "parsed"
    /\ stdout = << <<" ">> \o HelloWorld \o <<" ">>,
                   <<" ">> \o Sentinel \o Xyz,
                   <<" ">> \o HelloWorld \o <<" ">> >>
    /\ parsed = <<>>

\* ---------------------------------------------------------------------- C9
\* Line k is a marker line followed by a hypothesis line.
MarkerWithHypothesis(k) ==
    /\ k + 1 <= Len(stdout)
    /\ Strip(stdout[k]) = Marker
    /\ Strip(stdout[k + 1]) = HelloWorld

\* C9: sentinel priority. If some trimmed line starts with the sentinel, the
\* result is the empty string, also when a marker followed by a valid
\* hypothesis line comes earlier or later in the output and when the last
\* non-blank line is some other text.
C9_SentinelPriority ==
    pc = "parsed" =>
        \A k \in 1..Len(stdout) :
            LET l == Strip(stdout[k])
            IN  (Len(l) >= Len(Sentinel) /\ \A c \in 1..Len(Sentinel) : l[c] = Sentinel[c]) =>
                    /\ parsed = <<>>
                    /\ \A m \in 1..Len(stdout) : MarkerWithHypothesis(m) => parsed # HelloWorld

\* A marker and its hypothesis, then the sentinel line, then other text.
C9_Witness ==
    /\ pc = "parsed"
    /\ Len(stdout) = 4
    /\ MarkerWithHypothesis(1)
    /\ StartsWith(Strip(stdout[3]), Sentinel)
    /\ Strip(stdout[4]) = HelloWorld
    /\ parsed = <<>>

\* --------------------------------------------------------------------- C10
\* A rule: only '=' and '-' characters, more than five of them.
IsRule(l) == Len(l) > 5 /\ \A c \in 1..Len(l) : l[c] \in {"=", "-"}

\* No trimmed line starts with the sentinel.
NoSentinel == \A k \in 1..Len(stdout) : ~StartsWith(Strip(stdout[k]), Sentinel)

\* The marker lines of the output.
MarkerLines == { k \in 1..Len(stdout) : StartsWith(Strip(stdout[k]), Marker) }

\* C10: marker extraction. Without a sentinel line and with a marker line,
\* the first non-blank line after the FIRST marker line, when it is not a
\* rule, is returned trimmed, whatever follows it; a line of five or fewer
\* '=' and '-' characters is returned like any text line.
C10_MarkerExtraction ==
    (pc = "parsed" /\ NoSentinel /\ MarkerLines # {}) =>
        LET m == CHOOSE k \in MarkerLines : \A o \in MarkerLines : k <= o
            after == { k \in (m + 1)..Len(stdout) : Strip(stdout[k]) # <<>> }
        IN  after # {} =>
                LET f == CHOOSE k \in after : \A o \in after : k <= o
                IN  ~IsRule(Strip(stdout[f])) => parsed = Strip(stdout[f])

\* The marker, two blank lines, "hello world" and a rule of six '=' give
\* "hello world".
C10_Witness ==
    /\ pc = "parsed"
    /\ stdout = << <<" ">> \o Marker, <<>>, <<" ">>, <<" ">> \o HelloWorld \o <<" ">>,
                   <<"=","=","=","=","=","=">> >>
    /\ parsed = HelloWorld

\* --------------------------------------------------------------------- C11
\* The second step of the parser yields nothing: there is no marker line, or
\* only blank lines follow the first marker line, or the first non-blank line
\* after the first marker line is a rule.
MarkerStepEmpty ==
    \/ MarkerLines = {}
    \/ LET m == CHOOSE k \in MarkerLines : \A o \in MarkerLines : k <= o
           after == { k \in (m + 1)..Len(stdout) : Strip(stdout[k]) # <<>> }
       IN  \/ after = {}
           \/ IsRule(Strip(stdout[CHOOSE k \in after : \A o \in after : k <= o]))

\* The non-blank lines of the output.
NonBlankLines == { k \in 1..Len(stdout) : Strip(stdout[k]) # <<>> }

\* C11: parser fallback. Without a sentinel line and when the marker step
\* yields nothing, the result is the last non-blank line of the whole output,
\* trimmed (be it the marker line or a rule, and whatever later marker lines
\* are followed by), and the empty string when every line is blank.
C11_ParserFallback ==
    (pc = "parsed" /\ NoSentinel /\ MarkerStepEmpty) =>
        IF NonBlankLines = {} THEN parsed = <<>>
        ELSE parsed = Strip(stdout[CHOOSE k \in NonBlankLines :
                                       \A o \in NonBlankLines : k >= o])

\* The first marker is followed by a rule, a second marker by "hello world";
\* the last line is a rule again, and it is the result.
C11_Witness ==
    /\ pc = "parsed"
    /\ stdout = << <<" ">> \o Marker, <<"=","=","=","=","=","=">>, <<" ">> \o Marker,
                   <<" ">> \o HelloWorld \o <<" ">>, <<"=","=","=","=","=","=">> >>
    /\ parsed = <<"=","=","=","=","=","=">>

\* --------------------------------------------------------------------- C12
\* The words of the reference and of the hypothesis handed to wer_light.
RefWords == tokenize(norm(wer_in[1]))

HypWords == tokenize(norm(wer_in[2]))

\* The Levenshtein distance of two sequences, by its definition on the heads.
RECURSIVE Levenshtein(_, _)
Levenshtein(a, b) ==
    IF a = <<>> THEN Len(b)
    ELSE IF b = <<>> THEN Len(a)
    ELSE IF Head(a) = Head(b) THEN Levenshtein(Tail(a), Tail(b))
    ELSE 1 + Min2(Levenshtein(Tail(a), Tail(b)),
                  Min2(Levenshtein(Tail(a), b), Levenshtein(a, Tail(b))))

\* C12: WER correctness. wer_light returns (ratio, edits, n) where n is the
\* number of words of the normalised reference, edits is the Levenshtein
\* distance between the words of the reference and of the hypothesis, edits
\* is not negative, and the ratio equals edits / n when n > 0.
C12_WerCorrect ==
    pc = "wer_done" =>
        LET out == wer_out[1]
        IN  /\ out.n = Len(RefWords)
            /\ out.edits = Levenshtein(RefWords, HypWords)
            /\ out.edits >= 0
            /\ out.n > 0 => (out.den > 0 /\ out.num * out.n = out.edits * out.den)

\* "He is an expert" against "He is an expertt": one edit, four words, 0.25.
C12_Witness ==
    /\ pc = "wer_done"
    /\ wer_in = <<HeIsAnExpert, HeIsAnExpertt>>
    /\ wer_out[1].edits = 1
    /\ wer_out[1].n = 4
    /\ wer_out[1].num * 4 = wer_out[1].den

\* --------------------------------------------------------------------- C13
\* C13 as stated: for an empty hypothesis and a reference text that is not
\* empty, the WER ratio is 1.0.
C13_EmptyHypNonEmptyRefText ==
    (pc = "wer_done" /\ wer_in[2] = <<>> /\ wer_in[1] # <<>>) =>
        wer_out[1].num = wer_out[1].den

\* C13 as amended: for an empty hypothesis, wer_light returns a result with
\* a non-zero divisor; the ratio is 1.0 (every reference word is an edit)
\* when the reference holds at least one word, and 0.0 when it holds none,
\* be it empty or made of punctuation only.
C13_EmptyHypothesis ==
    (pc = "wer_done" /\ wer_in[2] = <<>>) =>
        LET out == wer_out[1]
        IN  /\ Len(wer_out) = 1
            /\ out.den > 0
            /\ IF Len(RefWords) > 0
               THEN out.num = out.den /\ out.edits = Len(RefWords)
               ELSE out.num = 0 /\ out.edits = 0

\* "a b" against the empty hypothesis: two edits, two words, ratio 1.
C13_Witness ==
    /\ pc = "wer_done"
    /\ wer_in = << <<"a", " ", "b">>, <<>> >>
    /\ wer_out[1].edits = 2
    /\ wer_out[1].num = wer_out[1].den

\* --------------------------------------------------------------------- C14
\* C14: WER with an empty reference. When the reference holds no word, the
\* result is (0.0, 0, 0) if the hypothesis holds no word either and
\* (1.0, m, 0) if it holds m > 0 words; the ratio never has a zero divisor.
C14_EmptyReference ==
    (pc = "wer_done" /\ RefWords = <<>>) =>
        LET out == wer_out[1]
            m == Len(HypWords)
        IN  /\ out.den # 0
            /\ out.n = 0
            /\ out.edits = m
            /\ (m = 0) => (out.num = 0)
            /\ (m > 0) => (out.num = out.den)

\* The empty reference against "a b": (1.0, 2, 0).
C14_Witness ==
    /\ pc = "wer_done"
    /\ wer_in = << <<>>, <<"a", " ", "b">> >>
    /\ wer_out[1].num = wer_out[1].den
    /\ wer_out[1].edits = 2
    /\ wer_out[1].n = 0

\* --------------------------------------------------------------------- C15
\* C15: WER identity. When the hypothesis holds the same words as the
\* reference (in particular when both are the same text), the edits are 0;
\* with at least one word the result is (0.0, 0, number of words).
C15_WerIdentity ==
    (pc = "wer_done" /\ (wer_in[1] = wer_in[2] \/ RefWords = HypWords)) =>
        LET out == wer_out[1]
        IN  /\ out.edits = 0
            /\ RefWords # <<>> => (out.num = 0 /\ out.den > 0 /\ out.n = Len(RefWords))

\* "He is an expert" against itself: (0.0, 0, 4).
C15_Witness ==
    /\ pc = "wer_done"
    /\ wer_in = <<HeIsAnExpert, HeIsAnExpert>>
    /\ wer_out[1].edits = 0
    /\ wer_out[1].num = 0
    /\ wer_out[1].n = 4

\* --------------------------------------------------------------------- C16
\* C16: normaliser idempotence. Over strings of letters, digits, whitespace,
\* ASCII punctuation and the six replaced characters, normalising the
\* normalised string changes nothing: norm(norm(x)) = norm(x).
C16_NormIdempotent ==
    pc \in {"normalized", "tokenized"} => norm(norm_out) = norm_out

\* A capital letter, a tab and the ellipsis character become "b ...".
C16_Witness ==
    /\ pc = "normalized"
    /\ text_in = <<"B", "\t", "U+2026">>
    /\ norm_out = <<"b", " ", ".", ".", ".">>
    /\ norm(norm_out) = norm_out

\* --------------------------------------------------------------------- C17
\* The maximal runs of alphanumeric and apostrophe characters of the string,
\* as pairs of first and last position.
WordChar(k) == text_in[k] \in AlnumSet \cup {"'"}

MaximalRuns ==
    { run \in (1..Len(text_in)) \X (1..Len(text_in)) :
        /\ run[1] <= run[2]
        /\ \A k \in run[1]..run[2] : WordChar(k)
        /\ run[1] = 1 \/ ~WordChar(run[1] - 1)
        /\ run[2] = Len(text_in) \/ ~WordChar(run[2] + 1) }

\* C17: tokenizer output. No token is empty, every token is made of
\* alphanumeric and apostrophe characters only, the tokens are exactly the
\* maximal runs of such characters in the order of the input, and the empty
\* string gives no token.
C17_TokenizerOutput ==
    pc = "tokenized" =>
        /\ Len(tok_out) = Cardinality(MaximalRuns)
        /\ \A k \in 1..Len(tok_out) :
               /\ tok_out[k] # <<>>
               /\ \A c \in 1..Len(tok_out[k]) : tok_out[k][c] \in AlnumSet \cup {"'"}
               /\ \E run \in MaximalRuns :
                      /\ tok_out[k] = SubSeq(text_in, run[1], run[2])
                      /\ Cardinality({ o \in MaximalRuns : o[1] < run[1] }) = k - 1
        /\ text_in = <<>> => tok_out = <<>>

\* An apostrophe, a full stop and a digit give the tokens "'" and "1".
C17_Witness ==
    /\ pc = "tokenized"
    /\ text_in = <<"'", ".", "1">>
    /\ tok_out = << <<"'">>, <<"1">> >>

\* --------------------------------------------------------------------- C18
\* The edits and the reference words of the first k rows, added up.
RECURSIVE SumEdits(_, _)
SumEdits(rows, k) ==
    IF k = 0 THEN 0
    ELSE SumEdits(rows, k - 1) + wer_light(rows[k].ref, rows[k].hyp).edits

RECURSIVE SumRefWords(_, _)
SumRefWords(rows, k) ==
    IF k = 0 THEN 0
    ELSE SumRefWords(rows, k - 1) + Len(tokenize(norm(rows[k].ref)))

\* The aggregate lines printed.
OverallLines == { k \in 1..Len(console) : console[k].kind = "overall" }

\* C18: report aggregation. While the rows are processed the accumulated
\* edits and reference words are the sums over the rows processed so far;
\* after the last row they are the sums over all rows, and the aggregate
\* line, with the ratio total edits / total reference words, is printed
\* exactly when the total of reference words is positive, so that no
\* aggregate ratio has a zero divisor.
C18_ReportAggregation ==
    (pc \in {"report", "done"} /\ ret \in {<<>>, <<0>>}) =>
        LET rows == Rows
            seen == IF pc = "done" THEN Len(rows) ELSE ridx - 1
        IN  /\ overall_edits = SumEdits(rows, seen)
            /\ overall_ref_words = SumRefWords(rows, seen)
            /\ pc = "report" => OverallLines = {}
            /\ pc = "done" =>
                   /\ (OverallLines # {}) <=> (overall_ref_words > 0)
                   /\ \A k \in OverallLines :
                          /\ k = Len(console)
                          /\ console[k].num = SumEdits(rows, Len(rows))
                          /\ console[k].den = SumRefWords(rows, Len(rows))
                          /\ console[k].den > 0

\* Two rows, the first with two reference words and an empty hypothesis, the
\* second with one reference word: the aggregate line, printed last, shows
\* the edits of both rows over 2 + 1 reference words.
C18_Witness ==
    /\ pc = "done"
    /\ ret = <<0>>
    /\ Len(Rows) = 2
    /\ Rows[1].hyp = <<>>
    /\ overall_ref_words = 3
    /\ overall_edits >= 2
    /\ OverallLines = {3}
    /\ console[3].num = overall_edits
    /\ console[3].den = 3

\* No row at all: no reference word and no aggregate line.
C18_WitnessNoRows ==
    /\ pc = "done"
    /\ ret = <<0>>
    /\ Rows = <<>>
    /\ overall_ref_words = 0
    /\ console = <<>>

\* --------------------------------------------------------------------- C19
\* The external processes spawned and not yet returned.
InFlight ==
    (Len(tts_calls) - Len(tts_exits)) + (Len(asr_calls) - Len(asr_exits))

\* The primary (batch mode) ASR invocations made so far.
PrimaryInvocations == { k \in 1..Len(asr_calls) : ~asr_calls[k].streaming }

\* C19: strictly sequential execution. At most one TTS or ASR process is in
\* flight at any time; the TTS invocation of an utterance only exists when
\* the one before it has returned and its manifest line is appended; no ASR
\* process starts before the last TTS process has returned; the primary ASR
\* invocation of a path only exists when every invocation for the path
\* before it (the retry included) has returned and its row is written.
C19_Sequential ==
    /\ InFlight \in {0, 1}
    /\ \A k \in 2..Len(tts_calls) :
           /\ Len(tts_exits) >= k - 1
           /\ Len(ManifestFileLines) >= k - 1
    /\ asr_calls # <<>> =>
           (Len(tts_exits) = Len(tts_calls) /\ Len(tts_calls) = Len(texts))
    /\ \A k \in PrimaryInvocations :
           /\ Len(asr_exits) >= k - 1
           /\ Len(TsvRows) >= Cardinality({ o \in PrimaryInvocations : o < k })

\* The primary invocation of the second path is in flight after a primary
\* invocation and a retry for the first path, whose row is written.
C19_Witness ==
    /\ pc = "asr_wait"
    /\ Len(asr_calls) = 3
    /\ asr_calls[2].streaming
    /\ ~asr_calls[3].streaming
    /\ Len(asr_exits) = 2
    /\ Len(TsvRows) = 1
    /\ Len(tts_exits) = 2
    /\ InFlight = 1

\* --------------------------------------------------------------------- C20
\* "tts_outputs/out_0k.wav", for an utterance index k below ten.
OutWav(k) ==
    <<"t","t","s","_","o","u","t","p","u","t","s","/","o","u","t","_","0">>
        \o <<Digits[k + 1]>> \o <<".","w","a","v">>

\* C20: TTS invocation shape. The k-th TTS invocation of a run is the one of
\* utterance k with its text; --auto-download is passed to the invocation of
\* utterance 1 and to no other; every invocation writes to the file
\* out_<index>.wav of its own index, so no two write to the same file.
C20_TtsInvocationShape ==
    \A k \in 1..Len(tts_calls) :
        /\ tts_calls[k].idx = k
        /\ tts_calls[k].text = texts[k]
        /\ tts_calls[k].auto_download <=> (k = 1)
        /\ k < 10 => tts_calls[k].output = OutWav(k)
        /\ \A o \in 1..Len(tts_calls) :
               (o # k) => (tts_calls[o].output # tts_calls[k].output)

\* Two invocations: the first with the flag and out_01.wav, the second
\* without the flag and with out_02.wav.
C20_Witness ==
    /\ Len(tts_calls) = 2
    /\ tts_calls[1].auto_download
    /\ ~tts_calls[2].auto_download
    /\ tts_calls[1].output =
           <<"t","t","s","_","o","u","t","p","u","t","s","/","o","u","t","_","0","1",
             ".","w","a","v">>
    /\ tts_calls[2].output =
           <<"t","t","s","_","o","u","t","p","u","t","s","/","o","u","t","_","0","2",
             ".","w","a","v">>

\* --------------------------------------------------------------------- C21
\* Every text of the corpus has been synthesised by a TTS invocation that
\* exited zero.
SynthesisComplete ==
    /\ Len(tts_exits) = Len(texts)
    /\ \A k \in 1..Len(tts_exits) : tts_exits[k] = 0

\* s is a proper prefix of t.
ProperPrefix(s, t) == Len(s) < Len(t) /\ SubSeq(t, 1, Len(s)) = s

\* One step of the run, as far as the manifest and the report file go.
ManifestDiscipline ==
    /\ pc = "start" => (manifest' = <<>> /\ ~manifest_exists')
    /\ (pc # "start" /\ manifest' # manifest) =>
           (pc = "tts_wait" /\ ProperPrefix(manifest, manifest'))
    /\ pc \in {"read", "asr", "asr_wait", "retry_wait", "report", "done"} =>
           (manifest' = manifest /\ manifest_exists' = manifest_exists)
    /\ (tsv' # tsv \/ asr_calls' # asr_calls) =>
           (pc \in {"asr", "asr_wait", "retry_wait"} /\ SynthesisComplete)

\* C21: two-phase manifest discipline. The manifest is emptied at the start
\* of a run, only grows (by appended lines) during the synthesis phase and is
\* not written from the reading of the manifest on; an ASR invocation is made
\* and the report file is written only when every TTS invocation of the
\* corpus has exited zero, and after a failed TTS invocation nothing of the
\* second phase has run.
C21_TwoPhaseManifest ==
    /\ []((asr_calls # <<>> \/ tsv # <<>> \/ unique_items # <<>>
             \/ pc \in {"read", "asr", "asr_wait", "retry_wait", "report"})
            => SynthesisComplete)
    /\ []((\E k \in 1..Len(tts_exits) : tts_exits[k] # 0) =>
             (asr_calls = <<>> /\ tsv = <<>> /\ unique_items = <<>> /\ console = <<>>))
    /\ [][ManifestDiscipline]_vars

\* The first TTS invocation exited zero, the second with code 7: the
\* manifest holds the line of the first utterance only and nothing of the
\* second phase has run.
C21_Witness ==
    /\ pc = "done"
    /\ tts_exits = <<0, 7>>
    /\ manifest = ManifestLine(OutWav(1), texts[1])
    /\ asr_calls = <<>>
    /\ tsv = <<>>

\* --------------------------------------------------------------------- C22
\* C22: parser result shape. The result of the parser is the empty string
\* or the trimmed content of a non-blank line of the output: it holds no
\* line break and neither starts nor ends with whitespace; a result that is
\* not empty does not start with the sentinel. Hence the retry condition of
\* run_batch holds of a parsed hypothesis exactly when it is empty, and a
\* retry that fails or parses to the empty string leaves the empty string as
\* the hypothesis of the item.
C22_ParserResultShape ==
    pc = "parsed" =>
        /\ \/ parsed = <<>>
           \/ \E k \in 1..Len(stdout) : Strip(stdout[k]) # <<>> /\ parsed = Strip(stdout[k])
        /\ \A c \in 1..Len(parsed) : parsed[c] # "\n"
        /\ parsed # <<>> => (~IsSpace(parsed[1]) /\ ~IsSpace(parsed[Len(parsed)]))
        /\ parsed # <<>> => (\E c \in 1..Len(Sentinel) :
                                 c > Len(parsed) \/ parsed[c] # Sentinel[c])
        /\ NeedsRetry(parsed) <=> (parsed = <<>>)
        /\ parsed = <<>> =>
               \A code \in AsrExitCodes :
                   /\ RetryResult(parsed, code, <<>>) = <<>>
                   /\ CalledProcessError(code) => RetryResult(parsed, code, HelloWorld) = <<>>

\* A blank line, " hello world " and an empty line give "hello world", by
\* the fallback.
C22_Witness ==
    /\ pc = "parsed"
    /\ stdout = << <<" ">>, <<" ">> \o HelloWorld \o <<" ">>, <<>> >>
    /\ parsed = HelloWorld
    /\ ~NeedsRetry(parsed)

\* Only blank lines: the empty string, for which the retry condition holds.
C22_WitnessEmpty ==
    /\ pc = "parsed"
    /\ stdout = << <<" ">>, <<>> >>
    /\ parsed = <<>>
    /\ NeedsRetry(parsed)

\* --------------------------------------------------------------------- C23
\* C23: end-to-end alignment. Once all N TTS invocations have exited zero
\* (no corpus text holds a tab or a line break), the manifest holds N lines
\* with pairwise distinct paths, the deduplication keeps all N entries in
\* order, row j of the report file carries the path out_<j>.wav and the
\* reference text of utterance j, and when the transcription loop is over
\* there are exactly N rows, whatever the ASR invocations returned.
C23_EndToEndAlignment ==
    (SynthesisComplete /\ pc \in {"asr", "asr_wait", "retry_wait", "report", "done"}) =>
        LET rows == Rows
            lines == ManifestFileLines
            N == Len(texts)
        IN  /\ Len(lines) = N
            /\ \A a, b \in 1..N :
                   (a # b) => (SplitMax(lines[a], "\t", 1)[1] # SplitMax(lines[b], "\t", 1)[1])
            /\ Len(unique_items) = N
            /\ \A j \in 1..N :
                   unique_items[j] = [path |-> OutWav(j), ref |-> texts[j]]
            /\ Len(rows) <= N
            /\ \A j \in 1..Len(rows) :
                   (rows[j].path = OutWav(j) /\ rows[j].ref = texts[j])
            /\ pc \in {"report", "done"} => Len(rows) = N

\* Two utterances; the primary ASR invocation of the first failed, the
\* second went through a retry: two rows, aligned with the corpus.
C23_Witness ==
    /\ pc = "done"
    /\ ret = <<0>>
    /\ Len(texts) = 2
    /\ texts[1] # texts[2]
    /\ Len(asr_calls) = 3
    /\ asr_exits[1].code # 0
    /\ asr_calls[3].streaming
    /\ Len(Rows) = 2
    /\ Rows[2].path = OutWav(2)
    /\ Rows[2].ref = texts[2]

\* --------------------------------------------------------------------- C24
\* The ASR invocations made on a path.
CallsOn(path) == { k \in 1..Len(asr_calls) : asr_calls[k].path = path }

\* At most two ASR invocations per path; a streaming invocation comes at
\* most once per path and right after a primary invocation on the same path
\* that exited zero; no utterance has two TTS invocations; at most 3N
\* external invocations in all.
InvocationBounds ==
    /\ \A k \in 1..Len(asr_calls) :
           /\ Cardinality(CallsOn(asr_calls[k].path)) <= 2
           /\ Cardinality(StreamingCalls(asr_calls[k].path)) <= 1
           /\ asr_calls[k].streaming =>
                  /\ k > 1
                  /\ ~asr_calls[k - 1].streaming
                  /\ asr_calls[k - 1].path = asr_calls[k].path
                  /\ asr_exits[k - 1].code = 0
    /\ \A a, b \in 1..Len(tts_calls) : (a # b) => (tts_calls[a].idx # tts_calls[b].idx)
    /\ Len(tts_calls) <= Len(texts)
    /\ Len(asr_calls) <= 2 * Len(texts)
    /\ Len(tts_calls) + Len(asr_calls) <= 3 * Len(texts)

\* run_batch has returned an exit code.
Terminated == pc = "done" /\ Len(ret) = 1

\* An upper bound on the steps the run has left: two per utterance still to
\* synthesise, one to read the manifest, three per path still to transcribe,
\* one per row still to report (there is one row per path) and one to end
\* the report.
StepsLeft ==
    LET N == Len(texts)
        U == Len(unique_items)
    IN  CASE pc = "start" -> 1 + 2 * N + 4 * N + 2
          [] pc = "synth" -> 2 * (N - idx + 1) + 4 * N + 2
          [] pc = "tts_wait" -> 2 * (N - idx) + 1 + 4 * N + 2
          [] pc = "read" -> 4 * N + 2
          [] pc = "asr" -> 3 * (U - i + 1) + U + 1
          [] pc = "asr_wait" -> 3 * (U - i) + 2 + U + 1
          [] pc = "retry_wait" -> 3 * (U - i) + 1 + U + 1
          [] pc = "report" -> U - ridx + 2
          [] OTHER -> 0

\* The run is at a position from which a step can be taken (an external
\* process that is waited for returns), or it has returned an exit code.
CanStep ==
    /\ pc \in {"start", "synth", "tts_wait", "read", "asr", "asr_wait", "retry_wait",
                "report", "done"}
    /\ pc = "synth" => idx <= Len(texts)
    /\ pc = "read" => manifest_exists
    /\ pc = "asr" => i <= Len(unique_items)
    /\ pc = "report" => ridx <= Len(TsvRows) + 1
    /\ pc = "done" => Terminated

\* C24: bounded retry and termination. The bounds on the invocations hold
\* throughout; the run is never stuck before it has returned an exit code,
\* and every step lowers a bound on the steps left that is never negative,
\* so that the run, every external invocation returning, ends with an exit
\* code.
C24_BoundedRetry ==
    /\ []InvocationBounds
    /\ [](CanStep /\ StepsLeft >= 0)
    /\ [][StepsLeft' < StepsLeft]_vars

\* A run over two utterances that made all of its 3 * 2 invocations and
\* returned.
C24_Witness ==
    /\ Terminated
    /\ Len(texts) = 2
    /\ Len(tts_calls) = 2
    /\ Len(asr_calls) = 4
    /\ asr_calls[2].streaming
    /\ asr_calls[4].streaming

\* --------------------------------------------------------------------- C25
\* With n reference words and m hypothesis words, the edits lie between
\* |n - m| and max(n, m), and they are the edits of the hypothesis against
\* the reference.
EditBounds ==
    LET n == Len(RefWords)
        m == Len(HypWords)
        edits == wer_out[1].edits
    IN  /\ edits >= n - m
        /\ edits >= m - n
        /\ edits <= (IF n >= m THEN n ELSE m)
        /\ edits = wer_light(wer_in[2], wer_in[1]).edits

\* C25 as stated: the edits are within the bounds and symmetric, and the
\* ratio exceeds 1.0 whenever the edits exceed n.
C25_RatioAboveOneWheneverEditsAboveN ==
    pc = "wer_done" =>
        /\ EditBounds
        /\ wer_out[1].edits > wer_out[1].n => wer_out[1].num > wer_out[1].den

\* C25 as amended: the edits are within the bounds and symmetric, also when
\* a sequence is empty; the ratio exceeds 1.0 whenever the edits exceed n
\* and n > 0, and it is exactly 1.0 when the reference holds no word and
\* the hypothesis holds some.
C25_EditBoundsAndSymmetry ==
    pc = "wer_done" =>
        LET out == wer_out[1]
        IN  /\ EditBounds
            /\ (out.edits > out.n /\ out.n > 0) => out.num > out.den
            /\ (out.edits > out.n /\ out.n = 0) => out.num = out.den

\* "a" against "b b": two edits for one reference word, ratio 2.
C25_Witness ==
    /\ pc = "wer_done"
    /\ wer_in = << <<"a">>, <<"b", " ", "b">> >>
    /\ wer_out[1].edits = 2
    /\ wer_out[1].n = 1
    /\ wer_out[1].num = 2 * wer_out[1].den

\* --------------------------------------------------------------------- C26
\* Some TTS invocation exited with a non-zero code.
SynthesisFailed == \E k \in 1..Len(tts_exits) : tts_exits[k] # 0

\* C26 as stated: the exit code is 0 exactly when every synthesis invocation
\* exited zero (whatever the ASR invocations returned), it is the exit code
\* of the failing TTS invocation when synthesis fails, and it is 2 when the
\* swift toolchain is missing, in which case no TTS or ASR invocation is
\* made; the code of the missing toolchain is produced by no other outcome.
C26_ExitCode ==
    (pc = "done" /\ Len(ret) = 1) =>
        /\ (ret = <<0>>) <=> (swift = "available" /\ SynthesisComplete)
        /\ SynthesisFailed => ret = <<tts_exits[Len(tts_exits)]>>
        /\ swift = "missing" =>
               (ret = <<2>> /\ tts_calls = <<>> /\ asr_calls = <<>>)
        /\ ret = <<2>> => swift = "missing"

\* What holds of the exit code: the statement above without its last line.
C26_ExitCodeSources ==
    (pc = "done" /\ Len(ret) = 1) =>
        /\ (ret = <<0>>) <=> (swift = "available" /\ SynthesisComplete)
        /\ SynthesisFailed => ret = <<tts_exits[Len(tts_exits)]>>
        /\ swift = "missing" =>
               (ret = <<2>> /\ tts_calls = <<>> /\ asr_calls = <<>>)
        /\ swift = "available" => (SynthesisFailed \/ SynthesisComplete)

\* The toolchain is available and the first TTS invocation exits with code
\* 2: the exit code is 2, as when the toolchain is missing.
C26_AmbiguousCode ==
    /\ pc = "done"
    /\ swift = "available"
    /\ tts_exits = <<2>>
    /\ ret = <<SwiftMissingCode>>

====
